---- MODULE Spec2Model ----
(***************************************************************************)
(* PixieVeil storage manager: concurrent ingest (StorageManager.           *)
(* process_image, called on the DICOM library's worker threads) and the    *)
(* study-completion tracker (StorageManager.check_study_completions,       *)
(* driven by _completion_loop), sharing the maps, the counters and the     *)
(* on-disk layout <base>/NNNN/SSSS/IIII.dcm.                               *)
(*                                                                         *)
(* One model step is one stretch of code between two points where another  *)
(* thread can observe or change shared state: a `with self._lock:` block,  *)
(* or one file-system operation performed outside the lock.                *)
(***************************************************************************)
EXTENDS Integers, FiniteSets, Sequences, TLC

\* ---------------------------------------------------------------- bounds
NumThreads == 2      \* C-STORE worker threads running process_image
MaxImages == 2       \* images received in one run
MaxTime == 1         \* clock values 0..MaxTime are tracked exactly
MaxTimeout == 1      \* settings.study["completion_timeout"] ranges over 0..MaxTimeout
MaxBoot == 1         \* largest study directory found under <base> at boot
CounterCap == 2      \* tracker-side counters saturate here (ticks are unbounded)
MaxCalls == 2        \* Anonymizer.anonymize calls on one Anonymizer object
MaxStores == 2       \* C-STORE requests handled on one association
MaxSvcCalls == 3     \* start() and stop() calls on one StorageManager
MaxUploads == 3      \* upload_file calls on one RemoteStorage object
MaxFilterCalls == 2  \* should_filter calls

StudyUIDs == {"S1", "S2"}
SeriesUIDs == {"a", "b"}
Threads == 1..NumThreads

\* The clock value that stands for "any later time": every last_received
\* recorded before it is older than every completion_timeout.
Far == MaxTime + MaxTimeout + 1

NoUID == "-"

VARIABLES
    \* configuration (settings), fixed at construction
    timeout,          \* settings.study["completion_timeout"]
    base_url,         \* RemoteStorage.base_url is configured
    boot,             \* largest 4-digit directory name under <base> at boot (0: none)
    profile_config,   \* Anonymizer.profile_config
    \* StorageManager fields
    study_states,     \* study_uid -> [last_received, completed]
    study_counter,
    study_map,        \* study_uid -> study_number
    series_map,       \* <<study_uid, series_uid>> -> <<study_number, series_number>>
    image_counters,   \* <<study_number, series_number>> -> last image number
    completed_count,
    counters,
    lock,             \* holder of self._lock across steps: "free" or "tracker"
    \* file system under <base>
    studyDirs,        \* study numbers n with a directory <base>/NNNN
    seriesDirs,       \* <<n, s>> with a directory <base>/NNNN/SSSS
    files,            \* <<n, s, i>> with a file <base>/NNNN/SSSS/IIII.dcm
    dataset,          \* file -> the dataset stored in it
    zips,             \* n -> set of files archived in <base>/NNNN.zip
    \* Anonymizer fields
    pseudo_values,    \* cache_key -> pseudo value
    entropy,          \* number of values drawn from the random generators
    \* process_image activations, one per worker thread
    proc,
    started,          \* number of images received so far
    \* check_study_completions / _completion_loop
    tpc,
    now,              \* local `now`
    todo,             \* items of study_states_copy not yet visited by the for loop
    cur,              \* local `study_uid` of the for loop
    success,          \* local `success` (the uploader's result)
    slept,            \* the loop's wait of `interval` seconds has elapsed
    clock,            \* time.time()
    \* history
    purged,           \* <<study_uid, n>>: uploaded with success, <base>/NNNN removed
    issued,           \* <<study_uid, series_uid, n, s, i>>: numbers given to an image
    anon_log,         \* the datasets passed to and returned by Anonymizer.anonymize
    \* C-STORE requests of one association, handled one after the other, and
    \* the dashboard
    temp_files,       \* image ids i with a file <temp>/<i>.dcm
    store_log,        \* per handled request: its outcome and the status returned
    snapshot,         \* the dict last returned by get_counters
    seen,             \* what the caller read in that dict when it was returned
    \* StorageManager.start / stop
    shutting_down,    \* self._shutting_down
    completion_task,  \* self._completion_task is not None
    loops,            \* number of _completion_loop tasks that have not ended
    stop_pc,          \* stop(): "idle", or "await" at `await self._completion_task`
    svc_log,          \* history: the start() and stop() calls made so far
    \* RemoteStorage and SeriesFilter called on their own
    upload_log,       \* per upload_file call: the server's answer and the result
    filter_log,       \* per should_filter call: the settings, the dataset, the result
    midIngest         \* a process_image call for `cur` was in flight when the
                      \* tracker read its last_received

cfgVars == <<timeout, base_url, boot, profile_config>>
anonVars == <<pseudo_values, entropy, anon_log>>
mapVars == <<study_counter, study_map, series_map, image_counters>>
diskVars == <<studyDirs, seriesDirs, files, dataset, zips>>
trkVars == <<tpc, now, todo, cur, success, midIngest>>
storeVars == <<temp_files, store_log, snapshot, seen>>
svcVars == <<shutting_down, completion_task, loops, stop_pc, svc_log>>
edgeVars == <<upload_log, filter_log>>
vars == <<timeout, base_url, study_states, study_counter, study_map, series_map,
          image_counters, completed_count, counters, lock, studyDirs, seriesDirs,
          files, zips, proc, started, tpc, now, todo, cur, success, slept, clock,
          boot, profile_config, dataset, pseudo_values, entropy, issued, anon_log,
          temp_files, store_log, snapshot, seen, shutting_down, completion_task,
          loops, stop_pc, svc_log, upload_log, filter_log>>

\* ---------------------------------------------------------------- helpers
MaxOf(S) == CHOOSE x \in S : \A y \in S : y <= x

\* An empty dict, and a dict without one key.
EmptyMap == [x \in {} |-> 0]
Without(f, k) == [x \in (DOMAIN f) \ {k} |-> f[x]]

\* Counter increment of the tracker, saturating at the model's cap.
Sat(x) == IF x < CounterCap THEN x + 1 ELSE x

Bump(c, field) == [c EXCEPT ![field] = @ + 1]
BumpSat(c, field) == [c EXCEPT ![field] = Sat(@)]

\* The worker threads are interchangeable: an arriving image is taken by the
\* first idle one.
FirstIdle(t) == proc[t].pc = "idle" /\ \A t2 \in Threads : t2 < t => proc[t2].pc # "idle"

\* A process_image call for study u is past validation and has not yet
\* recorded last_received.
InFlight(u) == \E t \in Threads : proc[t].pc # "idle" /\ proc[t].study_uid = u

\* The study was uploaded and removed from disk at some earlier point.
WasPurged(u) == \E p \in purged : p[1] = u

\* A dataset with no data element.
EmptyDataset == [x \in {} |-> ""]

IdleProc ==
    [pc |-> "idle", study_uid |-> NoUID, series_uid |-> NoUID,
     study_number |-> 0, series_number |-> 0, image_number |-> 0,
     reingest |-> FALSE, ds |-> EmptyDataset]

\* StudyState.__init__
StudyState == [last_received |-> clock, completed |-> FALSE]

\* Files below <base>/NNNN
FilesOf(n) == {f \in files : f[1] = n}
SeriesOf(n) == {d \in seriesDirs : d[1] = n}


\* ---------------------------------------------------------------- datasets
\* A dataset is a function from the data elements it holds to their values.
\* Keyword-less elements are named by their tag: "0009,0010" is a private
\* element, "6000,3000" the overlay data of overlay group 0x6000.
PrivateTags == {"0009,0010"}
OverlayTags == {"6000,3000"}

SetTag(ds, tag, v) == [x \in (DOMAIN ds) \cup {tag} |-> IF x = tag THEN v ELSE ds[x]]
SetIfPresent(ds, tag, v) == IF tag \in DOMAIN ds THEN [ds EXCEPT ![tag] = v] ELSE ds
DelTags(ds, tags) == [x \in (DOMAIN ds) \ tags |-> ds[x]]

\* getattr(ds, tag, None)
GetAttr(ds, tag) == IF tag \in DOMAIN ds THEN ds[tag] ELSE NoUID

\* Modality is an attribute of the series: series "a" is CT, any other MR.
Modality(series_uid) == IF series_uid = "a" THEN "CT" ELSE "MR"

\* The identifiers, modality and patient attributes of an image as it is
\* received.
OriginalDataset(study_uid, series_uid) ==
    [x \in {"StudyInstanceUID", "SeriesInstanceUID", "SOPInstanceUID",
            "Modality", "PatientName", "PatientID"} |->
        CASE x = "StudyInstanceUID" -> study_uid
          [] x = "SeriesInstanceUID" -> series_uid
          [] x = "SOPInstanceUID" -> "o1"
          [] x = "Modality" -> Modality(series_uid)
          [] x = "PatientName" -> "DOE^JOHN"
          [] x = "PatientID" -> "PID1"]

\* settings.series_filter["exclude_modalities"], and SeriesFilter.
\* should_filter (_is_original_series is always True; a dataset without
\* Modality raises AttributeError inside the try and is accepted).
exclude_modalities == {"MR"}

\* Variant: a dataset whose evaluation raises is dropped.
ShouldFilterStrict(exclude, keep_original_series, ds) ==
    IF "Modality" \notin DOMAIN ds THEN TRUE
    ELSE ds["Modality"] \in exclude

\* _is_original_series: `return True`.
is_original_series(ds) == TRUE

\* should_filter of a SeriesFilter built with these settings: ds.Modality
\* raises AttributeError when the element is absent, and the `except
\* Exception` answers False.
ShouldFilter(exclude, keep_original_series, ds) ==
    IF "Modality" \notin DOMAIN ds THEN FALSE
    ELSE IF ds["Modality"] \in exclude THEN TRUE
    ELSE keep_original_series /\ ~is_original_series(ds)

should_filter(ds) == ShouldFilter(exclude_modalities, TRUE, ds)

\* _validate_dicom: the dataset carries every required field.
required_fields == {"StudyInstanceUID", "SeriesInstanceUID", "SOPInstanceUID"}
validate_dicom(ds) == required_fields \subseteq DOMAIN ds

\* ---------------------------------------------------------------- anonymizer
\* The generators return a value never returned before and different from
\* every received value: the k-th draw is named by k.
generate_uid(k) == "2.25." \o ToString(k)
generate_random_string(k) == "RND" \o ToString(k)

\* The anonymizer's mutable state: the pseudo_values cache and the number of
\* random draws made so far.
Registry(cache, k) == [pseudo_values |-> cache, entropy |-> k]

\* Variant: the cache key is built from the identifiers only.
CacheKeyNoCategory(category, study_uid, series_uid) ==
    "" \o (IF study_uid # NoUID THEN "_" \o study_uid ELSE "")
       \o (IF series_uid # NoUID THEN "_" \o series_uid ELSE "")

\* cache_key = f"{category}" [+ f"_{study_uid}"] [+ f"_{series_uid}"]
CacheKey(category, study_uid, series_uid) ==
    category \o (IF study_uid # NoUID THEN "_" \o study_uid ELSE "")
             \o (IF series_uid # NoUID THEN "_" \o series_uid ELSE "")

UIDCategories == {"study", "series", "image", "frame_of_reference"}

\* Anonymizer._generate_pseudo_value: the value and the registry afterwards.
GeneratePseudoValue(category, study_uid, series_uid, reg) ==
    LET cache_key == CacheKey(category, study_uid, series_uid)
    IN IF cache_key \in DOMAIN reg.pseudo_values
       THEN [value |-> reg.pseudo_values[cache_key], reg |-> reg]
       ELSE LET pseudo_value == IF category \in UIDCategories
                                THEN generate_uid(reg.entropy + 1)
                                ELSE generate_random_string(reg.entropy + 1)
            IN [value |-> pseudo_value,
                reg |-> Registry([x \in (DOMAIN reg.pseudo_values) \cup {cache_key} |->
                                    IF x = cache_key THEN pseudo_value
                                    ELSE reg.pseudo_values[x]],
                                 reg.entropy + 1)]

\* tag_name.lower()
Lower(tag_name) ==
    CASE tag_name = "PatientName" -> "patientname"
      [] tag_name = "PatientID" -> "patientid"
      [] tag_name = "StudyInstanceUID" -> "studyinstanceuid"
      [] tag_name = "SeriesInstanceUID" -> "seriesinstanceuid"
      [] OTHER -> tag_name

Actions == {"keep", "random", "pseudo", "ANONYMOUS", "UNKNOWN"}

\* Anonymizer._apply_action_to_value (every modelled value is a str).
ApplyActionToValue(action, current_value, tag_name, study_uid, series_uid, reg) ==
    CASE action = "keep" -> [value |-> current_value, reg |-> reg]
      [] action = "random" ->
            [value |-> generate_random_string(reg.entropy + 1),
             reg |-> Registry(reg.pseudo_values, reg.entropy + 1)]
      [] action = "pseudo" ->
            GeneratePseudoValue(Lower(tag_name), study_uid, series_uid, reg)
      [] action = "ANONYMOUS" -> [value |-> "ANONYMOUS", reg |-> reg]
      [] action = "UNKNOWN" -> [value |-> "UNKNOWN", reg |-> reg]
      [] OTHER -> [value |-> current_value, reg |-> reg]

\* A profile: its per-tag actions and its global switches. The empty profile
\* stands for "no profile" (an empty dict is false in `if self.profile_config`).
Profile(tags, switches) == [tags |-> tags, switches |-> switches]
NoProfile == Profile([x \in {} |-> ""], [x \in {} |-> TRUE])

\* profile_config.get(name, default) for a global switch
Switch(cfg, name, default) ==
    IF name \in DOMAIN cfg.switches THEN cfg.switches[name] ELSE default

\* The order in which `for tag_name, action in self.profile_config.items()`
\* visits the tags.
TagOrder == <<"PatientName", "PatientID", "StudyInstanceUID", "SeriesInstanceUID">>

\* The loop over the profile's items, from the i-th tag on.
RECURSIVE ApplyProfile(_, _, _, _, _, _)
ApplyProfile(ds, cfg, i, study_uid, series_uid, reg) ==
    IF i > Len(TagOrder)
    THEN [ds |-> ds, reg |-> reg]
    ELSE LET tag_name == TagOrder[i]
         IN IF tag_name \in DOMAIN cfg.tags /\ tag_name \in DOMAIN ds
            THEN LET r == ApplyActionToValue(cfg.tags[tag_name], ds[tag_name],
                                             tag_name, study_uid, series_uid, reg)
                 IN ApplyProfile([ds EXCEPT ![tag_name] = r.value], cfg, i + 1,
                                 study_uid, series_uid, r.reg)
            ELSE ApplyProfile(ds, cfg, i + 1, study_uid, series_uid, reg)

\* Anonymizer._default_anonymization. `overlay_group in ds` looks up the
\* element whose tag is the number overlay_group, i.e. (0000,6000)..(0000,601E).
tags_to_remove ==
    {"OtherPatientIDsSequence", "PatientTelephoneNumbers", "MilitaryRank",
     "RequestAttributesSequence", "ClinicalTrialSponsorName",
     "ClinicalTrialProtocolID"}
OverlayLoopTags == {"0000,6000", "0000,6002", "0000,601E"}

DefaultAnonymization(ds, reg) ==
    LET d1 == SetTag(SetTag(SetTag(SetTag(ds, "PatientName", "Anonymous"),
                                   "PatientID", "ID-REDACTED"),
                            "PatientBirthDate", ""),
                     "PatientSex", "")
        r2 == IF "StudyInstanceUID" \in DOMAIN d1
              THEN GeneratePseudoValue("study", NoUID, NoUID, reg)
              ELSE [value |-> "", reg |-> reg]
        d2 == SetIfPresent(d1, "StudyInstanceUID", r2.value)
        r3 == IF "SeriesInstanceUID" \in DOMAIN d2
              THEN GeneratePseudoValue("series", NoUID, NoUID, r2.reg)
              ELSE [value |-> "", reg |-> r2.reg]
        d3 == SetIfPresent(d2, "SeriesInstanceUID", r3.value)
        r4 == IF "SOPInstanceUID" \in DOMAIN d3
              THEN GeneratePseudoValue("image", NoUID, NoUID, r3.reg)
              ELSE [value |-> "", reg |-> r3.reg]
        d4 == SetIfPresent(d3, "SOPInstanceUID", r4.value)
        r5 == GeneratePseudoValue("accession", NoUID, NoUID, r4.reg)
        d5 == SetTag(SetTag(d4, "AccessionNumber", r5.value),
                     "StudyDescription", "Anonymized Study")
        d6 == DelTags(d5, tags_to_remove)
        d7 == SetIfPresent(d6, "BurnedInAnnotation", "NO")
        d8 == DelTags(d7, OverlayLoopTags)
    IN [ds |-> d8, reg |-> r5.reg]

\* ds.remove_private_tags()
RemovePrivateTags(ds) == DelTags(ds, PrivateTags)

\* Anonymizer.anonymize: the dataset it leaves and the registry afterwards.
Anonymize(ds, cfg, reg) ==
    LET study_uid == GetAttr(ds, "StudyInstanceUID")
        series_uid == GetAttr(ds, "SeriesInstanceUID")
    IN IF cfg # NoProfile
       THEN LET r == ApplyProfile(ds, cfg, 1, study_uid, series_uid, reg)
            IN [ds |-> IF ~Switch(cfg, "KeepPrivateTags", TRUE)
                       THEN RemovePrivateTags(r.ds) ELSE r.ds,
                reg |-> r.reg]
       ELSE DefaultAnonymization(ds, reg)

\* Variant: the counter starts at 0 whatever the directories found.
BootCounterZero(study_numbers) == 0

\* max(study_numbers) if study_numbers else 0
BootCounter(study_numbers) ==
    IF study_numbers # {} THEN MaxOf(study_numbers) ELSE 0

\* The anonymizer as StorageManager.__init__ builds it: Anonymizer(settings)
\* names no profile.
AnonymizerInit ==
    /\ profile_config = NoProfile
    /\ pseudo_values = [x \in {} |-> ""]
    /\ entropy = 0
    /\ anon_log = <<>>

\* run.py awaits storage_manager.start() before it starts the DICOM server:
\* one completion loop runs and no shutdown was asked for.
Running ==
    /\ shutting_down = FALSE
    /\ completion_task = TRUE
    /\ loops = 1
    /\ stop_pc = "idle"
    /\ svc_log = <<[call |-> "start", task |-> FALSE, stores |-> 0]>>

\* No C-STORE request has been handled and get_counters has not been called.
StoreIdle ==
    /\ temp_files = {}
    /\ store_log = <<>>
    /\ snapshot = [g \in {} |-> [ref |-> g]]
    /\ seen = counters

\* ---------------------------------------------------------------- Init
\* StorageManager.__init__: <base> holds some 4-digit directories, the largest
\* being `boot`; study_counter resumes after it; every map is empty.
Constructed ==
    /\ timeout \in 0..MaxTimeout
    /\ base_url \in BOOLEAN
    /\ study_states = EmptyMap
    /\ \E m \in 0..MaxBoot : \E dirs \in SUBSET (1..m) :
         /\ m > 0 => m \in dirs
         /\ studyDirs = dirs
         /\ study_counter = BootCounter(dirs)
         /\ boot = m
    /\ study_map = EmptyMap
    /\ series_map = EmptyMap
    /\ image_counters = EmptyMap
    /\ completed_count = 0
    /\ counters = [reception_studies |-> 0,
                   anonymized_images |-> 0,
                   err_anonymization |-> 0,
                   err_validation |-> 0,
                   err_processing |-> 0,
                   storage_images |-> 0,
                   errors_total |-> 0]
    /\ lock = "free"
    /\ seriesDirs = {}
    /\ files = {}
    /\ dataset = [f \in {} |-> EmptyDataset]
    /\ zips = EmptyMap
    /\ AnonymizerInit
    /\ proc = [t \in Threads |-> IdleProc]
    /\ started = 0
    /\ tpc = "sleep"
    /\ now = 0
    /\ todo = {}
    /\ cur = NoUID
    /\ success = "none"
    /\ slept = TRUE
    /\ clock = 0
    /\ purged = {}
    /\ issued = {}
    /\ midIngest = FALSE
    /\ StoreIdle
    /\ upload_log = <<>>
    /\ filter_log = <<>>

\* The service as it takes requests: constructed, then started by run.py.
Init == Constructed /\ Running

\* ---------------------------------------------------------------- ingest
\* process_image from its entry to the end of "Update reception counters for
\* new studies": the dataset is read, validated, its original identifiers
\* are captured and a study not yet numbered is counted as received.
Receive(t) ==
    /\ FirstIdle(t)
    /\ ~shutting_down
    /\ started < MaxImages
    /\ clock # Far
    /\ lock = "free"
    /\ \E u \in StudyUIDs, s \in SeriesUIDs :
         /\ validate_dicom(OriginalDataset(u, s))
         /\ proc' = [proc EXCEPT ![t] = [IdleProc EXCEPT !.pc = "anonymize",
                                                          !.study_uid = u,
                                                          !.series_uid = s,
                                                          !.reingest = WasPurged(u),
                                                          !.ds = OriginalDataset(u, s)]]
         /\ counters' = (IF u \notin DOMAIN study_map
                         THEN Bump(counters, "reception_studies")
                         ELSE counters)
    /\ started' = started + 1
    /\ UNCHANGED <<cfgVars, edgeVars, svcVars, storeVars, anonVars, study_states, mapVars, completed_count, lock,
                   diskVars, trkVars, slept, clock, purged, issued>>

\* Variant: the rejected image still takes a study number.
ReceiveInvalidNumbers(t) ==
    /\ FirstIdle(t)
    /\ ~shutting_down
    /\ started < MaxImages
    /\ clock # Far
    /\ lock = "free"
    /\ \E u \in StudyUIDs, s \in SeriesUIDs, field \in required_fields :
         ~validate_dicom(Without(OriginalDataset(u, s), field))
    /\ started' = started + 1
    /\ counters' = Bump(Bump(counters, "err_validation"), "errors_total")
    /\ study_counter' = study_counter + 1
    /\ UNCHANGED <<cfgVars, edgeVars, svcVars, storeVars, anonVars, study_states, study_map, series_map,
                   image_counters, completed_count, lock,
                   diskVars, proc, trkVars, slept, clock, purged, issued>>

\* process_image on a dataset that lacks a required field: _validate_dicom
\* rejects it.
ReceiveInvalid(t) ==
    /\ FirstIdle(t)
    /\ ~shutting_down
    /\ started < MaxImages
    /\ clock # Far
    /\ lock = "free"
    /\ \E u \in StudyUIDs, s \in SeriesUIDs, field \in required_fields :
         ~validate_dicom(Without(OriginalDataset(u, s), field))
    /\ started' = started + 1
    /\ counters' = Bump(Bump(counters, "err_validation"), "errors_total")
    /\ UNCHANGED <<cfgVars, edgeVars, svcVars, storeVars, anonVars, study_states, mapVars, completed_count, lock,
                   diskVars, proc, trkVars, slept, clock, purged, issued>>

\* Variant: the failed image still refreshes the study's entry.
AnonymizeFailRecords(t) ==
    /\ proc[t].pc = "anonymize"
    /\ lock = "free"
    /\ counters' = Bump(Bump(counters, "err_anonymization"), "errors_total")
    /\ study_states' = (proc[t].study_uid :> StudyState) @@ study_states
    /\ proc' = [proc EXCEPT ![t] = IdleProc]
    /\ UNCHANGED <<cfgVars, edgeVars, svcVars, storeVars, anonVars, mapVars, completed_count, lock,
                   diskVars, started, trkVars, slept, clock, purged, issued>>

\* anonymizer.anonymize or save_as raises.
AnonymizeFail(t) ==
    /\ proc[t].pc = "anonymize"
    /\ lock = "free"
    /\ counters' = Bump(Bump(counters, "err_anonymization"), "errors_total")
    /\ proc' = [proc EXCEPT ![t] = IdleProc]
    /\ UNCHANGED <<cfgVars, edgeVars, svcVars, storeVars, anonVars, study_states, mapVars, completed_count, lock,
                   diskVars, started, trkVars, slept, clock, purged, issued>>

\* Variant: the new number is mapped but study_counter is not written back.
AssignStudyNumberStale(u, counter, map) ==
    IF u \notin DOMAIN map
    THEN [counter |-> counter, map |-> map @@ (u :> counter + 1)]
    ELSE [counter |-> counter, map |-> map]

\* "Assign study number": the counter and the map after the block.
AssignStudyNumber(u, counter, map) ==
    IF u \notin DOMAIN map
    THEN [counter |-> counter + 1, map |-> map @@ (u :> counter + 1)]
    ELSE [counter |-> counter, map |-> map]

\* "Find highest existing series number for this study"
NextSeriesCount(n) ==
    IF n \in studyDirs
    THEN LET series_numbers == {d[2] : d \in SeriesOf(n)}
         IN IF series_numbers # {} THEN MaxOf(series_numbers) + 1 ELSE 1
    ELSE 1

\* Variant: the series number is recomputed from the directory for every
\* image, also for a pair that is already mapped.
AssignSeriesNumberAlways(key, n, map) ==
    [x \in (DOMAIN map) \cup {key} |->
        IF x = key THEN <<n, NextSeriesCount(n)>> ELSE map[x]]

\* "Assign series number": series_map after the block.
AssignSeriesNumber(key, n, map) ==
    IF key \notin DOMAIN map
    THEN map @@ (key :> <<n, NextSeriesCount(n)>>)
    ELSE map

\* "Get next image number in series": image_counters after the block.
NextImageNumber(k, ctrs) ==
    IF k \notin DOMAIN ctrs
    THEN ctrs @@ (k :> 1)
    ELSE [ctrs EXCEPT ![k] = @ + 1]

\* Anonymisation succeeds (anonymized_images is counted), then the numbering
\* block of process_image runs as one critical section. process_image calls
\* anonymize(ds) and takes the result as the anonymised dataset, while
\* Anonymizer.anonymize is declared with (ds, image_path, image_id) and
\* returns a path; the model follows the call site: the call either raises
\* (AnonymizeFail) or leaves the dataset that Anonymizer.anonymize builds.
Assign(t) ==
    /\ proc[t].pc = "anonymize"
    /\ lock = "free"
    /\ LET u == proc[t].study_uid
           key == <<u, proc[t].series_uid>>
           an == Anonymize(proc[t].ds, profile_config, Registry(pseudo_values, entropy))
           st == AssignStudyNumber(u, study_counter, study_map)
           sm == AssignSeriesNumber(key, st.map[u], series_map)
           ic == NextImageNumber(sm[key], image_counters)
       IN /\ pseudo_values' = an.reg.pseudo_values
          /\ entropy' = an.reg.entropy
          /\ study_counter' = st.counter
          /\ study_map' = st.map
          /\ series_map' = sm
          /\ image_counters' = ic
          /\ proc' = [proc EXCEPT ![t].pc = "mkdir",
                                  ![t].ds = an.ds,
                                  ![t].study_number = sm[key][1],
                                  ![t].series_number = sm[key][2],
                                  ![t].image_number = ic[sm[key]]]
          /\ issued' = issued \cup {<<u, proc[t].series_uid, sm[key][1],
                                      sm[key][2], ic[sm[key]]>>}
    /\ counters' = Bump(counters, "anonymized_images")
    /\ UNCHANGED <<cfgVars, edgeVars, svcVars, storeVars, anon_log, study_states, completed_count, lock, diskVars,
                   started, trkVars, slept, clock, purged>>

\* study_dir.mkdir(exist_ok=True); series_dir.mkdir(exist_ok=True)
Mkdir(t) ==
    /\ proc[t].pc = "mkdir"
    /\ studyDirs' = studyDirs \cup {proc[t].study_number}
    /\ seriesDirs' = seriesDirs \cup {<<proc[t].study_number, proc[t].series_number>>}
    /\ proc' = [proc EXCEPT ![t].pc = "move"]
    /\ UNCHANGED <<cfgVars, edgeVars, svcVars, storeVars, anonVars, study_states, mapVars, completed_count, counters,
                   lock, files, dataset, zips, started, trkVars, slept, clock, purged, issued>>

\* Variant: the file moved into the layout holds the dataset as received.
MoveOriginal(t) ==
    /\ proc[t].pc = "move"
    /\ <<proc[t].study_number, proc[t].series_number>> \in seriesDirs
    /\ LET image_dest == <<proc[t].study_number, proc[t].series_number,
                           proc[t].image_number>>
       IN /\ files' = files \cup {image_dest}
          /\ dataset' = [f \in files \cup {image_dest} |->
                           IF f = image_dest
                           THEN OriginalDataset(proc[t].study_uid, proc[t].series_uid)
                           ELSE dataset[f]]
    /\ proc' = [proc EXCEPT ![t].pc = "record"]
    /\ UNCHANGED <<cfgVars, edgeVars, svcVars, storeVars, anonVars, study_states, mapVars, completed_count, counters,
                   lock, studyDirs, seriesDirs, zips, started, trkVars, slept,
                   clock, purged, issued>>

\* shutil.move(image_path, image_dest) into an existing series directory.
Move(t) ==
    /\ proc[t].pc = "move"
    /\ <<proc[t].study_number, proc[t].series_number>> \in seriesDirs
    /\ LET image_dest == <<proc[t].study_number, proc[t].series_number,
                           proc[t].image_number>>
       IN /\ files' = files \cup {image_dest}
          /\ dataset' = [f \in files \cup {image_dest} |->
                           IF f = image_dest THEN proc[t].ds ELSE dataset[f]]
    /\ proc' = [proc EXCEPT ![t].pc = "record"]
    /\ UNCHANGED <<cfgVars, edgeVars, svcVars, storeVars, anonVars, study_states, mapVars, completed_count, counters,
                   lock, studyDirs, seriesDirs, zips, started, trkVars, slept,
                   clock, purged, issued>>

\* shutil.move raises because the series directory is gone; the outer
\* `except Exception` counts a processing error.
MoveFail(t) ==
    /\ proc[t].pc = "move"
    /\ <<proc[t].study_number, proc[t].series_number>> \notin seriesDirs
    /\ lock = "free"
    /\ counters' = Bump(Bump(counters, "err_processing"), "errors_total")
    /\ proc' = [proc EXCEPT ![t] = IdleProc]
    /\ UNCHANGED <<cfgVars, edgeVars, svcVars, storeVars, anonVars, study_states, mapVars, completed_count, lock,
                   diskVars, started, trkVars, slept, clock, purged, issued>>

\* Variant: an existing entry's last_received is reset to the epoch.
RecordStudyStateRewinds(u, states) ==
    IF u \notin DOMAIN states
    THEN states @@ (u :> StudyState)
    ELSE [states EXCEPT ![u].last_received = 0]

\* "Thread-safe update of study_states and storage counters"
RecordStudyState(u, states) ==
    IF u \notin DOMAIN states
    THEN states @@ (u :> StudyState)
    ELSE [states EXCEPT ![u].last_received = clock]

Record(t) ==
    /\ proc[t].pc = "record"
    /\ lock = "free"
    /\ study_states' = RecordStudyState(proc[t].study_uid, study_states)
    /\ counters' = Bump(counters, "storage_images")
    /\ proc' = [proc EXCEPT ![t] = IdleProc]
    /\ UNCHANGED <<cfgVars, edgeVars, svcVars, storeVars, anonVars, mapVars, completed_count, lock, diskVars, started,
                   trkVars, slept, clock, purged, issued>>

\* ---------------------------------------------------------------- clock
\* Time passes; the completion loop's wait_for(..., timeout=interval) elapses.
AdvanceClock ==
    /\ clock < MaxTime
    /\ clock' = clock + 1
    /\ slept' = TRUE
    /\ UNCHANGED <<cfgVars, edgeVars, svcVars, storeVars, anonVars, study_states, mapVars, completed_count, counters,
                   lock, diskVars, proc, started, trkVars, purged, issued>>

\* No image arrives any more and an arbitrarily long time passes.
Quiesce ==
    /\ clock = MaxTime
    /\ \A t \in Threads : proc[t].pc = "idle"
    /\ clock' = Far
    /\ slept' = TRUE
    /\ UNCHANGED <<cfgVars, edgeVars, svcVars, storeVars, anonVars, study_states, mapVars, completed_count, counters,
                   lock, diskVars, proc, started, trkVars, purged, issued>>

\* ---------------------------------------------------------------- tracker
\* Leaving check_study_completions: back in _completion_loop, waiting.
TrackerIdle ==
    /\ tpc' = "sleep"
    /\ todo' = {}
    /\ cur' = NoUID
    /\ success' = "none"
    /\ midIngest' = FALSE
    /\ slept' = (clock = Far)

\* `not state.completed and (now - state.last_received) > timeout`
TimedOut(state, n, to) == ~state.completed /\ (n - state.last_received) > to

\* check_study_completions begins: `now` is sampled, the keys of study_states
\* are copied under the lock (the StudyState objects stay shared with the
\* live dict, so their fields are read live later on), and the debug
\* iteration over the live dict starts outside the lock.
TickStart ==
    /\ loops > 0
    /\ tpc = "sleep"
    /\ slept
    /\ lock = "free"
    /\ now' = clock
    /\ todo' = DOMAIN study_states
    /\ tpc' = (IF DOMAIN study_states # {} THEN "debug" ELSE "loop")
    /\ slept' = FALSE
    /\ UNCHANGED <<cfgVars, edgeVars, svcVars, storeVars, anonVars, study_states, mapVars, completed_count, counters,
                   lock, diskVars, proc, started, cur, success, clock, purged, issued, midIngest>>

\* `for study_uid, state in self.study_states.items()` runs to its end: the
\* live dict kept the size it had when the iteration began.
DebugEnd ==
    /\ tpc = "debug"
    /\ Cardinality(DOMAIN study_states) = Cardinality(todo)
    /\ tpc' = "loop"
    /\ UNCHANGED <<cfgVars, edgeVars, svcVars, storeVars, anonVars, study_states, mapVars, completed_count, counters,
                   lock, diskVars, proc, started, now, todo, cur, success,
                   slept, clock, purged, issued, midIngest>>

\* The dict changed size during the iteration: RuntimeError leaves
\* check_study_completions and is logged by _completion_loop.
DebugRaise ==
    /\ tpc = "debug"
    /\ Cardinality(DOMAIN study_states) # Cardinality(todo)
    /\ TrackerIdle
    /\ UNCHANGED <<cfgVars, edgeVars, svcVars, storeVars, anonVars, study_states, mapVars, completed_count, counters,
                   lock, diskVars, proc, started, now, clock, purged, issued>>

\* The for loop is exhausted: the tick is over.
TickEnd ==
    /\ tpc = "loop"
    /\ todo = {}
    /\ TrackerIdle
    /\ UNCHANGED <<cfgVars, edgeVars, svcVars, storeVars, anonVars, study_states, mapVars, completed_count, counters,
                   lock, diskVars, proc, started, now, clock, purged, issued>>

\* The for loop visits a study that is not timed out (or has no number).
Skip(u) ==
    /\ tpc = "loop"
    /\ u \in todo
    /\ u \in DOMAIN study_states
    /\ \/ ~TimedOut(study_states[u], now, timeout)
       \/ u \notin DOMAIN study_map
    /\ todo' = todo \ {u}
    /\ cur' = u
    /\ success' = "none"
    /\ midIngest' = FALSE
    /\ UNCHANGED <<cfgVars, edgeVars, svcVars, storeVars, anonVars, study_states, mapVars, completed_count, counters,
                   lock, diskVars, proc, started, tpc, now, slept,
                   clock, purged, issued>>

\* Variant: a study whose directory is missing is dropped from study_states.
DirMissingForgets(u) ==
    /\ tpc = "loop"
    /\ u \in todo
    /\ u \in DOMAIN study_states
    /\ TimedOut(study_states[u], now, timeout)
    /\ u \in DOMAIN study_map
    /\ study_map[u] \notin studyDirs
    /\ lock = "free"
    /\ todo' = todo \ {u}
    /\ cur' = u
    /\ success' = "none"
    /\ midIngest' = FALSE
    /\ counters' = BumpSat(counters, "errors_total")
    /\ study_states' = Without(study_states, u)
    /\ UNCHANGED <<cfgVars, edgeVars, svcVars, storeVars, anonVars, mapVars, completed_count, lock,
                   diskVars, proc, started, tpc, now, slept, clock, purged, issued>>

\* The for loop visits a timed-out study whose directory is missing:
\* warning, errors.total, continue.
DirMissing(u) ==
    /\ tpc = "loop"
    /\ u \in todo
    /\ u \in DOMAIN study_states
    /\ TimedOut(study_states[u], now, timeout)
    /\ u \in DOMAIN study_map
    /\ study_map[u] \notin studyDirs
    /\ lock = "free"
    /\ todo' = todo \ {u}
    /\ cur' = u
    /\ success' = "none"
    /\ midIngest' = FALSE
    /\ counters' = BumpSat(counters, "errors_total")
    /\ UNCHANGED <<cfgVars, edgeVars, svcVars, storeVars, anonVars, study_states, mapVars, completed_count, lock,
                   diskVars, proc, started, tpc, now, slept, clock, purged, issued>>

\* The for loop visits a timed-out study whose directory exists: its images
\* are counted and the archive counters updated.
Select(u) ==
    /\ tpc = "loop"
    /\ u \in todo
    /\ u \in DOMAIN study_states
    /\ TimedOut(study_states[u], now, timeout)
    /\ u \in DOMAIN study_map
    /\ study_map[u] \in studyDirs
    /\ lock = "free"
    /\ todo' = todo \ {u}
    /\ cur' = u
    /\ success' = "none"
    /\ midIngest' = InFlight(u)
    /\ tpc' = "zip"
    /\ UNCHANGED <<cfgVars, edgeVars, svcVars, storeVars, anonVars, study_states, mapVars, completed_count, counters,
                   lock, diskVars, proc, started, now, slept, clock, purged, issued>>

\* ZipManager.create_zip: every file found below <base>/NNNN is written to
\* <base>/NNNN.zip.
CreateZip(n, z) == [x \in (DOMAIN z) \cup {n} |-> IF x = n THEN FilesOf(n) ELSE z[x]]

\* Variant: the tracker takes the lock for the archive and keeps it while
\* the upload runs.
ZipHoldsLock ==
    /\ tpc = "zip"
    /\ lock = "free"
    /\ lock' = "tracker"
    /\ zips' = CreateZip(study_map[cur], zips)
    /\ tpc' = "upload"
    /\ UNCHANGED <<cfgVars, edgeVars, svcVars, storeVars, anonVars, study_states, mapVars, completed_count, counters,
                   studyDirs, seriesDirs, files, dataset, proc, started, now, todo,
                   cur, success, slept, clock, purged, issued, midIngest>>

Zip ==
    /\ tpc = "zip"
    /\ zips' = CreateZip(study_map[cur], zips)
    /\ tpc' = "upload"
    /\ UNCHANGED <<cfgVars, edgeVars, svcVars, storeVars, anonVars, study_states, mapVars, completed_count, counters,
                   lock, studyDirs, seriesDirs, files, dataset, proc, started, now, todo,
                   cur, success, slept, clock, purged, issued, midIngest>>

\* Variant: a failed archive is also counted as a processing error.
ZipFailCountsProcessing ==
    /\ tpc = "zip"
    /\ lock = "free"
    /\ zips' = zips
    /\ counters' = Bump(BumpSat(counters, "errors_total"), "err_processing")
    /\ tpc' = "loop"
    /\ UNCHANGED <<cfgVars, edgeVars, svcVars, storeVars, anonVars, study_states, mapVars, completed_count, lock,
                   studyDirs, seriesDirs, files, dataset, proc, started, now, todo, cur,
                   success, slept, clock, purged, issued, midIngest>>

\* create_zip catches an exception and returns None; the archive file may
\* have been created already.
ZipFail ==
    /\ tpc = "zip"
    /\ lock = "free"
    /\ \/ zips' = zips
       \/ zips' = [x \in (DOMAIN zips) \cup {study_map[cur]} |->
                     IF x = study_map[cur] THEN {} ELSE zips[x]]
    /\ counters' = BumpSat(counters, "errors_total")
    /\ tpc' = "loop"
    /\ UNCHANGED <<cfgVars, edgeVars, svcVars, storeVars, anonVars, study_states, mapVars, completed_count, lock,
                   studyDirs, seriesDirs, files, dataset, proc, started, now, todo, cur,
                   success, slept, clock, purged, issued, midIngest>>

\* RemoteStorage.upload_file: None without base_url, else True on HTTP 200
\* and False on any other status or exception.
\* What the POST comes to: the status of the response, or 0 when the
\* request raises (connection refused, timeout, unreadable file).
Responses == {0, 200, 201, 204, 301, 404, 500}

\* Variant: every 2xx status is a success.
upload_file_2xx(configured, response) ==
    IF ~configured THEN [result |-> "disabled", posts |-> 0]
    ELSE IF response \in 200..299 THEN [result |-> "ok", posts |-> 1]
    ELSE [result |-> "fail", posts |-> 1]

\* upload_file with `posts` the number of requests it sent.
upload_file(configured, response) ==
    IF ~configured THEN [result |-> "disabled", posts |-> 0]
    ELSE IF response = 200 THEN [result |-> "ok", posts |-> 1]
    ELSE [result |-> "fail", posts |-> 1]

UploadResults == {upload_file(base_url, response).result : response \in Responses}

Upload(r) ==
    /\ tpc = "upload"
    /\ r \in UploadResults
    /\ success' = r
    /\ tpc' = "handle"
    /\ UNCHANGED <<cfgVars, edgeVars, svcVars, storeVars, anonVars, study_states, mapVars, completed_count, counters,
                   lock, diskVars, proc, started, now, todo, cur, slept,
                   clock, purged, issued, midIngest>>

\* `success is None`: completed, completed_count, entry removed; files kept.
HandleDisabled ==
    /\ tpc = "handle"
    /\ success = "disabled"
    /\ lock = "free"
    /\ IF cur \in DOMAIN study_states
       THEN /\ study_states' = Without(study_states, cur)
            /\ completed_count' = completed_count + 1
       ELSE UNCHANGED <<study_states, completed_count>>
    /\ tpc' = "loop"
    /\ UNCHANGED <<cfgVars, edgeVars, svcVars, storeVars, anonVars, mapVars, counters, lock, diskVars, proc, started,
                   now, todo, cur, success, slept, clock, purged, issued, midIngest>>

\* Variant: a failed upload is cleaned up like a successful one.
HandleFailPurges ==
    /\ tpc = "handle"
    /\ success = "fail"
    /\ lock = "free"
    /\ study_states' = Without(study_states, cur)
    /\ files' = files \ FilesOf(study_map[cur])
    /\ dataset' = [f \in files \ FilesOf(study_map[cur]) |-> dataset[f]]
    /\ seriesDirs' = seriesDirs \ SeriesOf(study_map[cur])
    /\ studyDirs' = studyDirs \ {study_map[cur]}
    /\ zips' = Without(zips, study_map[cur])
    /\ tpc' = "loop"
    /\ UNCHANGED <<cfgVars, edgeVars, svcVars, storeVars, anonVars, mapVars, completed_count, counters, lock, proc,
                   started, now, todo, cur, success, slept, clock, purged, issued,
                   midIngest>>

\* `else`: the upload failed; only error counters change.
HandleFail ==
    /\ tpc = "handle"
    /\ success = "fail"
    /\ lock = "free"
    /\ counters' = BumpSat(counters, "errors_total")
    /\ tpc' = "loop"
    /\ UNCHANGED <<cfgVars, edgeVars, svcVars, storeVars, anonVars, study_states, mapVars, completed_count, lock,
                   diskVars, proc, started, now, todo, cur, success, slept, clock,
                   purged, issued, midIngest>>

\* `elif success`, first part, under the lock: completed, counters, and
\* shutil.rmtree lists the tree and removes every entry it listed. (Nothing
\* is done for a study whose entry is gone.)
HandleOkBegin ==
    /\ tpc = "handle"
    /\ success = "ok"
    /\ lock = "free"
    /\ IF cur \in DOMAIN study_states
       THEN /\ lock' = "tracker"
            /\ study_states' = [study_states EXCEPT ![cur].completed = TRUE]
            /\ completed_count' = completed_count + 1
            /\ files' = files \ FilesOf(study_map[cur])
            /\ dataset' = [f \in files \ FilesOf(study_map[cur]) |-> dataset[f]]
            /\ seriesDirs' = seriesDirs \ SeriesOf(study_map[cur])
            /\ tpc' = "rmdir"
       ELSE /\ tpc' = "loop"
            /\ UNCHANGED <<lock, study_states, completed_count, files, dataset,
                           seriesDirs>>
    /\ UNCHANGED <<cfgVars, edgeVars, svcVars, storeVars, anonVars, mapVars, counters, studyDirs, zips, proc, started,
                   now, todo, cur, success, slept, clock, purged, issued, midIngest>>

\* Variant: the cleanup also drops the study's number from study_map.
HandleOkEndForgets ==
    /\ tpc = "rmdir"
    /\ SeriesOf(study_map[cur]) = {}
    /\ studyDirs' = studyDirs \ {study_map[cur]}
    /\ zips' = Without(zips, study_map[cur])
    /\ study_states' = Without(study_states, cur)
    /\ study_map' = Without(study_map, cur)
    /\ purged' = purged \cup {<<cur, study_map[cur]>>}
    /\ lock' = "free"
    /\ tpc' = "loop"
    /\ UNCHANGED <<cfgVars, edgeVars, svcVars, storeVars, issued, anonVars, study_counter, series_map, image_counters,
                   completed_count, counters, seriesDirs, files, dataset, proc, started,
                   now, todo, cur, success, slept, clock, midIngest>>

\* shutil.rmtree ends with os.rmdir of the emptied study directory; then
\* zip_path.unlink() and `del self.study_states[study_uid]`.
HandleOkEnd ==
    /\ tpc = "rmdir"
    /\ SeriesOf(study_map[cur]) = {}
    /\ studyDirs' = studyDirs \ {study_map[cur]}
    /\ zips' = Without(zips, study_map[cur])
    /\ study_states' = Without(study_states, cur)
    /\ purged' = purged \cup {<<cur, study_map[cur]>>}
    /\ lock' = "free"
    /\ tpc' = "loop"
    /\ UNCHANGED <<cfgVars, edgeVars, svcVars, storeVars, issued, anonVars, mapVars, completed_count, counters, seriesDirs,
                   files, dataset, proc, started, now, todo, cur, success, slept,
                   clock, midIngest>>

\* os.rmdir finds the directory not empty (an ingest thread created a series
\* directory in it meanwhile): OSError leaves the `with` block and
\* check_study_completions, and is logged by _completion_loop.
HandleOkRaise ==
    /\ tpc = "rmdir"
    /\ SeriesOf(study_map[cur]) # {}
    /\ lock' = "free"
    /\ TrackerIdle
    /\ UNCHANGED <<cfgVars, edgeVars, svcVars, storeVars, anonVars, study_states, mapVars, completed_count, counters,
                   diskVars, proc, started, now, clock, purged, issued>>

\* ---------------------------------------------------------------- spec
Ingest ==
    \E t \in Threads :
        \/ Receive(t) \/ ReceiveInvalid(t) \/ AnonymizeFail(t) \/ Assign(t)
        \/ Mkdir(t) \/ Move(t) \/ MoveFail(t) \/ Record(t)

Tracker ==
    \/ TickStart \/ DebugEnd \/ DebugRaise \/ TickEnd
    \/ (\E u \in StudyUIDs : Skip(u) \/ DirMissing(u) \/ Select(u))
    \/ Zip \/ ZipFail
    \/ (\E r \in {"ok", "fail", "disabled"} : Upload(r))
    \/ HandleDisabled \/ HandleFail
    \/ HandleOkBegin \/ HandleOkEnd \/ HandleOkRaise

Next == Ingest \/ Tracker \/ AdvanceClock \/ Quiesce

Spec == Init /\ [][Next]_vars

\* The completion loop and the worker threads keep being scheduled, time
\* passes, and archiving and uploading do not fail for ever.
Fairness ==
    /\ WF_vars(Tracker)
    /\ WF_vars(Ingest)
    /\ WF_vars(AdvanceClock \/ Quiesce)
    /\ SF_vars(Zip)
    /\ SF_vars(Upload("ok"))

LiveSpec == Spec /\ Fairness

\* ---------------------------------------------------------------- anonymizer alone
\* An Anonymizer object built with a profile and called MaxCalls times, with
\* nothing else going on.

\* The data elements an image may carry besides its identifiers.
OptionalTags ==
    {"FrameOfReferenceUID", "BurnedInAnnotation", "MilitaryRank",
     "0009,0010", "6000,3000"}

OptionalValue(tag) ==
    CASE tag = "FrameOfReferenceUID" -> "f1"
      [] tag = "BurnedInAnnotation" -> "YES"
      [] tag = "MilitaryRank" -> "CPT"
      [] tag = "0009,0010" -> "private"
      [] tag = "6000,3000" -> "overlay"

\* The datasets passed to anonymize. A SeriesInstanceUID may have the text of
\* a StudyInstanceUID.
Datasets ==
    {[x \in (DOMAIN OriginalDataset(u, s)) \cup opt |->
         IF x \in opt THEN OptionalValue(x) ELSE OriginalDataset(u, s)[x]] :
       u \in StudyUIDs, s \in SeriesUIDs \cup {"S1"}, opt \in SUBSET OptionalTags}

\* settings.anonymization_profiles[profile]: one action for the patient
\* attributes, one for the study and series identifiers, and the
\* KeepPrivateTags switch; each may be left out of the profile.
ProfileOf(pa, ua, kpt) ==
    LET patient == IF pa # "absent" THEN {"PatientName", "PatientID"} ELSE {}
        uids == IF ua # "absent" THEN {"StudyInstanceUID", "SeriesInstanceUID"} ELSE {}
    IN Profile([x \in patient \cup uids |-> IF x \in patient THEN pa ELSE ua],
               [x \in (IF kpt # "absent" THEN {"KeepPrivateTags"} ELSE {}) |->
                   kpt = "true"])

Profiles ==
    {ProfileOf(pa, ua, kpt) : pa \in Actions \cup {"absent"},
                              ua \in {"keep", "random", "pseudo", "absent"},
                              kpt \in {"true", "false", "absent"}}

\* Anonymizer.__init__ with any profile, beside a storage manager that has
\* just been constructed over an empty <base> and stays idle.
AnonInit ==
    /\ profile_config \in Profiles
    /\ pseudo_values = [x \in {} |-> ""]
    /\ entropy = 0
    /\ anon_log = <<>>
    /\ timeout = 0
    /\ base_url = FALSE
    /\ boot = 0
    /\ study_states = EmptyMap
    /\ study_counter = 0
    /\ study_map = EmptyMap
    /\ series_map = EmptyMap
    /\ image_counters = EmptyMap
    /\ completed_count = 0
    /\ counters = [reception_studies |-> 0,
                   anonymized_images |-> 0,
                   err_anonymization |-> 0,
                   err_validation |-> 0,
                   err_processing |-> 0,
                   storage_images |-> 0,
                   errors_total |-> 0]
    /\ lock = "free"
    /\ studyDirs = {}
    /\ seriesDirs = {}
    /\ files = {}
    /\ dataset = [f \in {} |-> EmptyDataset]
    /\ zips = EmptyMap
    /\ proc = [t \in Threads |-> IdleProc]
    /\ started = 0
    /\ tpc = "sleep"
    /\ now = 0
    /\ todo = {}
    /\ cur = NoUID
    /\ success = "none"
    /\ slept = TRUE
    /\ clock = 0
    /\ purged = {}
    /\ issued = {}
    /\ midIngest = FALSE
    /\ StoreIdle
    /\ upload_log = <<>>
    /\ filter_log = <<>>
    /\ Running

\* One call of Anonymizer.anonymize. (The images of one run carry the same
\* optional data elements.)
AnonymizeCall(ds) ==
    /\ Len(anon_log) < MaxCalls
    /\ anon_log # <<>> => DOMAIN ds = DOMAIN anon_log[1].in
    /\ LET r == Anonymize(ds, profile_config, Registry(pseudo_values, entropy))
       IN /\ pseudo_values' = r.reg.pseudo_values
          /\ entropy' = r.reg.entropy
          /\ anon_log' = Append(anon_log, [in |-> ds, out |-> r.ds])
    /\ UNCHANGED <<cfgVars, edgeVars, svcVars, storeVars, study_states, mapVars, completed_count, counters,
                   lock, diskVars, proc, started, trkVars, slept, clock,
                   purged, issued>>

AnonNext == \E ds \in Datasets : AnonymizeCall(ds)

AnonSpec == AnonInit /\ [][AnonNext]_vars

\* ================================================================ C-STORE
\* The C-STORE callback on one association, whose requests are handled one
\* after the other, over a storage manager constructed on an empty <base>
\* with no profile; the tracker does not run. One step is one whole call.

\* Status codes returned by handle_c_store.
Success == 0
OutOfResources == 262          \* 0x0106
ProcessingFailure == 49152     \* 0xC000

\* What happens to one request: the event carries no dataset; ds.save_as to
\* the buffer raises; save_temp_image raises; or process_image is entered and
\* dcmread raises, _validate_dicom rejects the dataset, the anonymisation
\* raises, mkdir raises, shutil.move raises, or nothing fails.
ProcessOutcomes == {"parse_fail", "invalid", "anonymize_fail", "mkdir_fail",
                    "move_fail", "ok"}
Outcomes == {"no_dataset", "encode_fail", "save_temp_fail"} \cup ProcessOutcomes

\* The outcomes of a dataset that passed _validate_dicom.
ValidOutcomes == {"anonymize_fail", "mkdir_fail", "move_fail", "ok"}

\* The manager's state as process_image finds it, with the locals of the
\* call: `ds` the dataset read from image_path, `dest` the numbers of
\* image_dest, `temp` the existence of image_path and `raised` an exception
\* leaving the call.
Entered(ds) ==
    [counters |-> counters, pseudo_values |-> pseudo_values, entropy |-> entropy,
     study_counter |-> study_counter, study_map |-> study_map,
     series_map |-> series_map, image_counters |-> image_counters,
     studyDirs |-> studyDirs, seriesDirs |-> seriesDirs, files |-> files,
     dataset |-> dataset, study_states |-> study_states,
     ds |-> ds, dest |-> <<0, 0, 0>>, temp |-> TRUE, raised |-> FALSE]

\* Variant: the outer handler counts the error and re-raises.
ProcessingErrorReraises(S) ==
    [S EXCEPT !.counters = Bump(Bump(@, "err_processing"), "errors_total"),
              !.raised = TRUE]

\* Variant: the outer handler gives the numbers allocated by the call back.
ProcessingErrorRollsBack(S) ==
    [S EXCEPT !.counters = Bump(Bump(@, "err_processing"), "errors_total"),
              !.study_counter = study_counter,
              !.study_map = study_map,
              !.series_map = series_map,
              !.image_counters = image_counters]

\* The outer `except Exception` of process_image.
ProcessingError(S) ==
    [S EXCEPT !.counters = Bump(Bump(@, "err_processing"), "errors_total")]

\* `if not self._validate_dicom(ds)`: counted, return.
ValidationError(S) ==
    [S EXCEPT !.counters = Bump(Bump(@, "err_validation"), "errors_total")]

\* The inner `except Exception` around the anonymisation: counted, return.
AnonymizationError(S) ==
    [S EXCEPT !.counters = Bump(Bump(@, "err_anonymization"), "errors_total")]

\* "Update reception counters for new studies"
CountReception(S, u) ==
    IF u \notin DOMAIN S.study_map
    THEN [S EXCEPT !.counters = Bump(@, "reception_studies")]
    ELSE S

\* The anonymisation succeeds with result r.
Anonymized(S, r) ==
    [S EXCEPT !.counters = Bump(@, "anonymized_images"),
              !.pseudo_values = r.reg.pseudo_values,
              !.entropy = r.reg.entropy,
              !.ds = r.ds]

\* The numbering block.
Number(S, u, s) ==
    LET st == AssignStudyNumber(u, S.study_counter, S.study_map)
        sm == AssignSeriesNumber(<<u, s>>, st.map[u], S.series_map)
        ic == NextImageNumber(sm[<<u, s>>], S.image_counters)
    IN [S EXCEPT !.study_counter = st.counter,
                 !.study_map = st.map,
                 !.series_map = sm,
                 !.image_counters = ic,
                 !.dest = <<sm[<<u, s>>][1], sm[<<u, s>>][2], ic[sm[<<u, s>>]]>>]

\* study_dir.mkdir(exist_ok=True); series_dir.mkdir(exist_ok=True)
MakeDirs(S) ==
    [S EXCEPT !.studyDirs = @ \cup {S.dest[1]},
              !.seriesDirs = @ \cup {<<S.dest[1], S.dest[2]>>}]

\* shutil.move, then "Thread-safe update of study_states and storage
\* counters".
Place(S, u) ==
    [S EXCEPT !.files = @ \cup {S.dest},
              !.dataset = [f \in S.files \cup {S.dest} |->
                             IF f = S.dest THEN S.ds ELSE S.dataset[f]],
              !.study_states = RecordStudyState(u, @),
              !.counters = Bump(@, "storage_images"),
              !.temp = FALSE]

\* process_image up to the end of the anonymisation, which succeeds.
AnonymizedImage(S, u) ==
    Anonymized(CountReception(S, u),
               Anonymize(S.ds, profile_config, Registry(S.pseudo_values, S.entropy)))

\* process_image(image_path, image_id) on the dataset of study u, series s
\* (without its SOPInstanceUID when the outcome is "invalid"): the manager's
\* state when the call is over. `if self._shutting_down: return` comes first.
process_image(outcome, u, s) ==
    IF shutting_down THEN Entered(EmptyDataset) ELSE
    CASE outcome = "parse_fail" ->
           ProcessingError(Entered(EmptyDataset))
      [] outcome = "invalid" ->
           ValidationError(Entered(Without(OriginalDataset(u, s), "SOPInstanceUID")))
      [] outcome = "anonymize_fail" ->
           AnonymizationError(CountReception(Entered(OriginalDataset(u, s)), u))
      [] outcome = "mkdir_fail" ->
           ProcessingError(Number(AnonymizedImage(Entered(OriginalDataset(u, s)), u), u, s))
      [] outcome = "move_fail" ->
           ProcessingError(MakeDirs(
               Number(AnonymizedImage(Entered(OriginalDataset(u, s)), u), u, s)))
      [] OTHER ->
           Place(MakeDirs(
               Number(AnonymizedImage(Entered(OriginalDataset(u, s)), u), u, s)), u)

\* The manager is left as the call left it.
Becomes(r) ==
    /\ counters' = r.counters
    /\ pseudo_values' = r.pseudo_values
    /\ entropy' = r.entropy
    /\ study_counter' = r.study_counter
    /\ study_map' = r.study_map
    /\ series_map' = r.series_map
    /\ image_counters' = r.image_counters
    /\ studyDirs' = r.studyDirs
    /\ seriesDirs' = r.seriesDirs
    /\ files' = r.files
    /\ dataset' = r.dataset
    /\ study_states' = r.study_states

\* The status handle_c_store returns, the temp file it leaves and the line it
\* adds to the log after the call sequence ended as r.
Returned(outcome, u, r, left) ==
    /\ temp_files' = IF left THEN temp_files \cup {Len(store_log) + 1} ELSE temp_files
    /\ store_log' = Append(store_log,
                           [outcome |-> outcome,
                            study_uid |-> IF outcome \in ValidOutcomes THEN u ELSE NoUID,
                            status |-> IF outcome = "no_dataset" THEN ProcessingFailure
                                       ELSE IF r.raised THEN OutOfResources
                                       ELSE Success,
                            raised |-> r.raised,
                            errors |-> r.counters.errors_total - counters.errors_total])

\* handle_c_store for one request. save_temp_image is called with the encoded
\* bytes although it is declared with a dataset; the model follows the call
\* site: it either raises, with or without <temp>/<image_id>.dcm created, or
\* leaves the file. An exception reaching the handler's `except` gives 0x0106.
HandleCStore(outcome, u, s) ==
    /\ Len(store_log) < MaxStores
    /\ validate_dicom(OriginalDataset(u, s))
    /\ IF outcome \in ProcessOutcomes
       THEN /\ Becomes(process_image(outcome, u, s))
            /\ Returned(outcome, u, process_image(outcome, u, s),
                        process_image(outcome, u, s).temp)
       ELSE /\ Becomes(Entered(EmptyDataset))
            /\ \E left \in BOOLEAN :
                 /\ outcome \in {"no_dataset", "encode_fail"} => left = FALSE
                 /\ Returned(outcome, u,
                             [Entered(EmptyDataset) EXCEPT !.raised = (outcome # "no_dataset")],
                             left)
    /\ UNCHANGED <<cfgVars, edgeVars, svcVars, anon_log, completed_count, lock, zips, proc, started,
                   trkVars, slept, clock, purged, issued, snapshot, seen>>

\* The counters form groups, each a dict of its own under self.counters.
Groups == {"reception", "processing", "storage", "errors"}
GroupOf(field) ==
    CASE field = "reception_studies" -> "reception"
      [] field = "storage_images" -> "storage"
      [] field = "errors_total" -> "errors"
      [] OTHER -> "processing"

\* get_counters: dict(self.counters) is a new outer dict whose value for
\* each group is the manager's own dict of that group.
get_counters == [g \in Groups |-> [ref |-> g]]

\* What a reader finds in a dict returned by get_counters.
View(snap) ==
    [field \in {f \in DOMAIN counters : GroupOf(f) \in DOMAIN snap} |->
        counters[field]]

\* The dashboard's handle_stats calls get_counters and reads the result.
GetCounters ==
    /\ snapshot' = get_counters
    /\ seen' = counters
    /\ UNCHANGED <<cfgVars, edgeVars, svcVars, anonVars, study_states, mapVars, completed_count,
                   counters, lock, diskVars, proc, started, trkVars, slept, clock,
                   purged, issued, temp_files, store_log>>

StoreInit == AnonInit /\ profile_config = NoProfile

StoreNext ==
    \/ \E outcome \in Outcomes, u \in StudyUIDs, s \in SeriesUIDs :
         HandleCStore(outcome, u, s)
    \/ GetCounters

StoreSpec == StoreInit /\ [][StoreNext]_vars

\* ---------------------------------------------------------------- service
\* A StorageManager whose start() and stop() are called in any order by
\* coroutines of the event loop, while C-STORE requests are handled one after
\* the other and the completion loop runs. create_zip and shutil.rmtree do not
\* yield to the event loop, so start(), stop() and (in this specification) the
\* requests run only while the loop task waits, in wait_for or in the upload.
LoopWaits == tpc \in {"sleep", "upload"} /\ lock = "free"

\* __init__: no task, no stop event, _shutting_down = False.
NotStarted ==
    /\ shutting_down = FALSE
    /\ completion_task = FALSE
    /\ loops = 0
    /\ stop_pc = "idle"
    /\ svc_log = <<>>

Called(call) ==
    svc_log' = Append(svc_log, [call |-> call, task |-> completion_task,
                                stores |-> Len(store_log)])

\* Variant: start() creates a task whether or not one exists.
StartUnguarded ==
    /\ Len(svc_log) < MaxSvcCalls
    /\ LoopWaits
    /\ Called("start")
    /\ completion_task' = TRUE
    /\ loops' = loops + 1
    /\ slept' = TRUE
    /\ UNCHANGED <<cfgVars, edgeVars, storeVars, anonVars, study_states, mapVars, completed_count,
                   counters, lock, diskVars, proc, started, trkVars, clock, purged,
                   issued, shutting_down, stop_pc>>

\* start(): nothing when a task exists; else a new stop event and a new
\* _completion_loop task, whose first check comes before its first wait.
Start ==
    /\ Len(svc_log) < MaxSvcCalls
    /\ LoopWaits
    /\ Called("start")
    /\ IF completion_task
       THEN UNCHANGED <<completion_task, loops, slept>>
       ELSE /\ completion_task' = TRUE
            /\ loops' = loops + 1
            /\ slept' = TRUE
    /\ UNCHANGED <<cfgVars, edgeVars, storeVars, anonVars, study_states, mapVars, completed_count,
                   counters, lock, diskVars, proc, started, trkVars, clock, purged,
                   issued, shutting_down, stop_pc>>

\* Variant: stop() cancels the task and leaves _shutting_down alone.
StopBeginKeepsFlag ==
    /\ Len(svc_log) < MaxSvcCalls
    /\ stop_pc = "idle"
    /\ LoopWaits
    /\ Called("stop")
    /\ IF ~completion_task
       THEN UNCHANGED <<loops, stop_pc, tpc, todo, cur, success, midIngest, slept>>
       ELSE /\ loops' = loops - 1
            /\ stop_pc' = "await"
            /\ TrackerIdle
    /\ UNCHANGED <<cfgVars, edgeVars, storeVars, anonVars, study_states, mapVars, completed_count,
                   counters, lock, diskVars, proc, started, now, clock, purged, issued,
                   completion_task, shutting_down>>

\* stop() up to `await self._completion_task`: nothing when no task exists;
\* else the flag and the event are set and the task is cancelled. The task
\* is waiting: CancelledError is raised at its await and, not being an
\* Exception, ends _completion_loop wherever the tick was.
StopBegin ==
    /\ Len(svc_log) < MaxSvcCalls
    /\ stop_pc = "idle"
    /\ LoopWaits
    /\ Called("stop")
    /\ IF ~completion_task
       THEN UNCHANGED <<shutting_down, loops, stop_pc, tpc, todo, cur, success,
                        midIngest, slept>>
       ELSE /\ shutting_down' = TRUE
            /\ loops' = loops - 1
            /\ stop_pc' = "await"
            /\ TrackerIdle
    /\ UNCHANGED <<cfgVars, edgeVars, storeVars, anonVars, study_states, mapVars, completed_count,
                   counters, lock, diskVars, proc, started, now, clock, purged, issued,
                   completion_task>>

\* stop() after its await: `finally: self._completion_task = None`.
StopEnd ==
    /\ stop_pc = "await"
    /\ LoopWaits
    /\ completion_task' = FALSE
    /\ stop_pc' = "idle"
    /\ UNCHANGED <<cfgVars, edgeVars, storeVars, anonVars, study_states, mapVars, completed_count,
                   counters, lock, diskVars, proc, started, trkVars, slept, clock,
                   purged, issued, shutting_down, loops, svc_log>>

\* A C-STORE request handled while the loop task waits.
Store ==
    /\ LoopWaits
    /\ \E outcome \in ProcessOutcomes, u \in StudyUIDs :
         HandleCStore(outcome, u, "a")

\* An empty <base> and a completion_timeout of 0.
ServiceInit == Constructed /\ NotStarted /\ boot = 0 /\ timeout = 0

ServiceNext ==
    \/ Start \/ StopBegin \/ StopEnd
    \/ Store
    \/ TickStart \/ DebugEnd \/ TickEnd
    \/ (\E u \in StudyUIDs : Skip(u) \/ Select(u))
    \/ Zip \/ ZipFail
    \/ (\E r \in {"ok", "fail", "disabled"} : Upload(r))
    \/ HandleDisabled \/ HandleFail \/ HandleOkBegin \/ HandleOkEnd
    \/ AdvanceClock

ServiceSpec == ServiceInit /\ [][ServiceNext]_vars

\* ---------------------------------------------------------------- uploader alone
\* A RemoteStorage object, with or without base_url, whose upload_file is
\* called MaxUploads times against a server that answers anything.
UploadFile ==
    /\ Len(upload_log) < MaxUploads
    /\ \E response \in Responses :
         upload_log' = Append(upload_log,
                              [response |-> response,
                               result |-> upload_file(base_url, response).result,
                               posts |-> upload_file(base_url, response).posts])
    /\ UNCHANGED <<cfgVars, svcVars, storeVars, anonVars, study_states, mapVars,
                   completed_count, counters, lock, diskVars, proc, started, trkVars,
                   slept, clock, purged, issued, filter_log>>

UploadSpec == ServiceInit /\ [][UploadFile]_vars

\* ---------------------------------------------------------------- series filter alone
\* The datasets offered to the filter: with a Modality or without.
FilterInputs ==
    {OriginalDataset(u, s) : u \in StudyUIDs, s \in SeriesUIDs}
      \cup {Without(OriginalDataset(u, s), "Modality") : u \in StudyUIDs, s \in SeriesUIDs}

Modalities == {Modality(s) : s \in SeriesUIDs}

\* should_filter of a SeriesFilter built with any exclude_modalities and
\* keep_original_series.
Filter ==
    /\ Len(filter_log) < MaxFilterCalls
    /\ \E exclude \in SUBSET Modalities, keep \in BOOLEAN, ds \in FilterInputs :
         filter_log' = Append(filter_log,
                              [exclude |-> exclude, keep_original_series |-> keep,
                               ds |-> ds, dropped |-> ShouldFilter(exclude, keep, ds)])
    /\ UNCHANGED <<cfgVars, svcVars, storeVars, anonVars, study_states, mapVars,
                   completed_count, counters, lock, diskVars, proc, started, trkVars,
                   slept, clock, purged, issued, upload_log>>

FilterSpec == ServiceInit /\ [][Filter]_vars

\* ================================================================ claims

\* A thread holds numbers assigned by the numbering block.
Numbered(t) == proc[t].pc \in {"mkdir", "move", "record"}

\* ---------------------------------------------------------------- C1
\* C1: in every reachable state, under every interleaving of process_image
\* calls, study_map is injective: two distinct StudyInstanceUIDs never hold
\* the same study number.
StudyMapInjective ==
    \A u1 \in DOMAIN study_map, u2 \in DOMAIN study_map :
        u1 # u2 => study_map[u1] # study_map[u2]

\* Two studies have been numbered.
TwoStudiesNumbered == Cardinality(DOMAIN study_map) = 2

\* ---------------------------------------------------------------- C3
\* C3: after the uploader returned failure for a study and the tracker has
\* handled it, the study directory exists and still holds every image that
\* was archived, the study_states entry is there with completed = FALSE, and
\* unless a new image arrived since the tick began the study is still timed
\* out, so the next tick selects it again.
UploadFailureKeepsStudy ==
    (tpc = "loop" /\ success = "fail") =>
        /\ cur \in DOMAIN study_states
        /\ ~study_states[cur].completed
        /\ study_map[cur] \in studyDirs
        /\ study_map[cur] \in DOMAIN zips
        /\ zips[study_map[cur]] \subseteq files
        /\ \/ TimedOut(study_states[cur], clock, timeout)
           \/ study_states[cur].last_received >= now

\* The tracker has handled a failed upload of a study that has images.
UploadFailureHandled ==
    /\ tpc = "loop"
    /\ success = "fail"
    /\ cur \in DOMAIN study_map
    /\ FilesOf(study_map[cur]) # {}

\* ---------------------------------------------------------------- C9
\* C9: once a (StudyInstanceUID, SeriesInstanceUID) pair is in series_map its
\* value never changes, and every image of the pair that has been numbered
\* is placed under the NNNN/SSSS the map holds for the pair.
SeriesNumberingStable ==
    [][/\ \A k \in DOMAIN series_map :
            k \in DOMAIN series_map' /\ series_map'[k] = series_map[k]
       /\ \A t \in Threads :
            Numbered(t)' =>
                <<proc'[t].study_number, proc'[t].series_number>>
                    = series_map'[<<proc'[t].study_uid, proc'[t].series_uid>>]
      ]_vars

\* A second image of the only pair numbered so far has been placed.
SecondImageOfSeries ==
    /\ Cardinality(DOMAIN series_map) = 1
    /\ \E t \in Threads : proc[t].pc = "record" /\ proc[t].image_number = 2

\* ---------------------------------------------------------------- C2
\* C2: the tracker never archives (zips, uploads or deletes) a study for which
\* a process_image call was in flight -- image validated, last_received not
\* yet recorded -- at the moment the tracker read that study's last_received.
NoArchiveMidIngest ==
    tpc \in {"upload", "handle", "rmdir"} => ~midIngest

\* ---------------------------------------------------------------- C4
\* C4: when the uploader returned success for a study, then once the tracker
\* has finished handling that study neither <base>/NNNN nor <base>/NNNN.zip
\* exists and the study_states entry is gone.
HandlingOver(r) ==
    /\ success = r
    /\ tpc \in {"handle", "rmdir"}
    /\ tpc' \notin {"handle", "rmdir"}

UploadSuccessCleansUp ==
    [][HandlingOver("ok") =>
          /\ study_map[cur] \notin studyDirs'
          /\ study_map[cur] \notin DOMAIN zips'
          /\ cur \notin DOMAIN study_states'
      ]_vars

\* ---------------------------------------------------------------- C5
\* C5: a study is marked completed only by the tracker's handling of an upload
\* that returned disabled or success; when that handling is over the entry
\* has been removed and completed_count has grown by exactly 1, with the
\* directory and the archive left intact (disabled) or both deleted (success).
MarkedCompleted ==
    \E u \in DOMAIN study_states' :
        /\ study_states'[u].completed
        /\ ~(u \in DOMAIN study_states /\ study_states[u].completed)

CompletedOnlyWhenDone ==
    [][/\ (MarkedCompleted \/ completed_count' # completed_count) =>
            /\ tpc = "handle"
            /\ success \in {"ok", "disabled"}
            /\ completed_count' = completed_count + 1
       /\ HandlingOver("disabled") =>
            /\ cur \notin DOMAIN study_states'
            /\ completed_count' = completed_count + 1
            /\ <<studyDirs', seriesDirs', files', zips'>>
                   = <<studyDirs, seriesDirs, files, zips>>
       /\ HandlingOver("ok") =>
            /\ cur \notin DOMAIN study_states'
            /\ study_map[cur] \notin studyDirs'
            /\ FilesOf(study_map[cur])' = {}
            /\ study_map[cur] \notin DOMAIN zips'
       /\ lock' = "free" =>
            \A u \in DOMAIN study_states' : ~study_states'[u].completed
      ]_vars

\* ---------------------------------------------------------------- C7
\* C7: the tracker starts archiving a study only if, at the tick's decision,
\* the study is not completed and (now - last_received) > completion_timeout;
\* and a study that received an image within the last completion_timeout
\* seconds is never zipped, uploaded or deleted.
ArchiveStep ==
    \/ tpc = "loop" /\ tpc' = "zip"
    \/ tpc = "zip" /\ tpc' = "upload"
    \/ tpc = "upload" /\ tpc' = "handle"
    \/ tpc = "handle" /\ tpc' = "rmdir"

NoArchiveWithinTimeout ==
    [][/\ (tpc = "loop" /\ tpc' = "zip") =>
            TimedOut(study_states[cur'], now, timeout)
       /\ ArchiveStep =>
            (clock - study_states[cur'].last_received) > timeout
      ]_vars

\* ---------------------------------------------------------------- C10
\* C10: within one study a series number identifies one series: two distinct
\* SeriesInstanceUIDs of the same StudyInstanceUID never hold the same series
\* number (never share a directory NNNN/SSSS).
SeriesNumbersDistinct ==
    \A k1 \in DOMAIN series_map, k2 \in DOMAIN series_map :
        (k1[1] = k2[1] /\ k1[2] # k2[2]) => series_map[k1] # series_map[k2]

\* ---------------------------------------------------------------- C6
\* C6: once no further image arrives, and with the uploader eventually
\* returning success or disabled, under fair scheduling of the completion
\* loop every study's entry is eventually removed from study_states.
EntryEventuallyRemoved ==
    \A u \in StudyUIDs :
        (clock = Far /\ u \in DOMAIN study_states) ~> (u \notin DOMAIN study_states)

\* ---------------------------------------------------------------- C8
\* C8 as stated: an image re-ingested after its study was purged is given a
\* study number different from the one the purged study had.
FreshNumberAfterPurge ==
    \A t \in Threads :
        (Numbered(t) /\ proc[t].reingest) =>
            \A p \in purged :
                p[1] = proc[t].study_uid => proc[t].study_number # p[2]

\* C8 as amended: a purged study keeps its number in study_map for the rest
\* of the run, and an image re-ingested after the purge is given that same
\* study number again.
SameNumberAfterPurge ==
    /\ \A p \in purged : p[1] \in DOMAIN study_map /\ study_map[p[1]] = p[2]
    /\ \A t \in Threads :
        (Numbered(t) /\ proc[t].reingest) =>
            \A p \in purged :
                p[1] = proc[t].study_uid => proc[t].study_number = p[2]

\* An image received after its study was purged has been numbered.
ReingestNumbered == \E t \in Threads : Numbered(t) /\ proc[t].reingest

\* ---------------------------------------------------------------- C11
\* Image numbers given so far to the images of series <<u, s>>.
ImageNumbersOf(u, s) == {e[5] : e \in {x \in issued : x[1] = u /\ x[2] = s}}

\* Every series' image numbers are 1, 2, ..., k.
ImageNumbersFromOne ==
    \A u \in StudyUIDs, s \in SeriesUIDs :
        ImageNumbersOf(u, s) = 1..Cardinality(ImageNumbersOf(u, s))

\* Every numbering block produced a destination of its own.
DestinationsDistinct ==
    Cardinality({<<e[3], e[4], e[5]>> : e \in issued}) = counters.anonymized_images

\* C11: within a series the image numbers handed out are 1, 2, ..., k in the
\* order of the numbering blocks, and no two numbered images (duplicates
\* included) are given the same destination NNNN/SSSS/IIII.dcm.
ImageNumbersConsecutive == ImageNumbersFromOne /\ DestinationsDistinct

\* ---------------------------------------------------------------- C12
\* C12: the k-th StudyInstanceUID to enter study_map is given study number
\* boot + k, boot being the largest 4-digit directory name found under <base>
\* at construction (0 if none); study_counter is the last number given.
StudyNumbersInOrder ==
    [][/\ \A u \in StudyUIDs :
            (u \notin DOMAIN study_map /\ u \in DOMAIN study_map') =>
                study_map'[u] = boot + Cardinality(DOMAIN study_map')
       /\ study_counter' = boot + Cardinality(DOMAIN study_map')
      ]_vars

\* Two studies were numbered in a tree that held directory 0001 at boot.
TwoStudiesAfterBoot ==
    /\ boot = 1
    /\ \E u1 \in DOMAIN study_map, u2 \in DOMAIN study_map :
         study_map[u1] = 2 /\ study_map[u2] = 3

\* ---------------------------------------------------------------- C13
\* C13: as long as a study's study_states entry exists, its last_received
\* never decreases: every landed image sets it to a value greater than or
\* equal to the one it held.
LastReceivedMonotone ==
    [][\A u \in (DOMAIN study_states) \cap (DOMAIN study_states') :
          study_states'[u].last_received >= study_states[u].last_received
      ]_vars

\* Two images of one study have landed on the same entry (no entry was ever
\* removed), the later one after the clock advanced.
LastReceivedRefreshed ==
    /\ counters.storage_images = 2
    /\ completed_count = 0
    /\ Cardinality(DOMAIN study_map) = 1
    /\ \E u \in DOMAIN study_states : study_states[u].last_received = 1

\* ---------------------------------------------------------------- C15
\* The values drawn so far from generate_uid.
GeneratedUIDs == {generate_uid(k) : k \in 1..entropy}

\* C15: every file in the layout is an anonymised dataset: its
\* StudyInstanceUID, SeriesInstanceUID and SOPInstanceUID are generated
\* pseudo-UIDs and none is a value that was received.
FilesAnonymised ==
    \A f \in files :
        /\ \A tag \in {"StudyInstanceUID", "SeriesInstanceUID", "SOPInstanceUID"} :
             dataset[f][tag] \in GeneratedUIDs
        /\ dataset[f]["StudyInstanceUID"] \notin StudyUIDs
        /\ dataset[f]["SeriesInstanceUID"] \notin SeriesUIDs
        /\ dataset[f]["SOPInstanceUID"] # "o1"

\* Files of two images are in the layout.
TwoFilesPlaced == Cardinality(files) = 2

\* ---------------------------------------------------------------- C20
\* C20: an image whose Modality is in exclude_modalities is dropped before
\* anonymisation: it is given no study, series or image number and is never
\* placed in the layout.
ExcludedNeverPlaced ==
    /\ \A t \in Threads : Numbered(t) => GetAttr(proc[t].ds, "Modality") \notin exclude_modalities
    /\ \A f \in files : ~should_filter(dataset[f])

\* ---------------------------------------------------------------- C14
\* The anonymize calls made so far.
Calls == 1..Len(anon_log)

\* The anonymizer pseudonymises the given attribute: by the default
\* behaviour, or by a profile whose action for it is "pseudo".
Pseudonymises(tag) ==
    \/ profile_config = NoProfile
    \/ tag \in DOMAIN profile_config.tags /\ profile_config.tags[tag] = "pseudo"

\* C14: two anonymised images whose original StudyInstanceUID was the same,
\* whatever their series, carry the same anonymised StudyInstanceUID, under
\* the default behaviour and under every profile that pseudonymises the tag.
PseudoStudyUIDConsistent ==
    Pseudonymises("StudyInstanceUID") =>
        \A i \in Calls, j \in Calls :
            anon_log[i].in["StudyInstanceUID"] = anon_log[j].in["StudyInstanceUID"]
                => anon_log[i].out["StudyInstanceUID"] = anon_log[j].out["StudyInstanceUID"]

\* ---------------------------------------------------------------- C16
\* C16: under every profile and under the default behaviour, the output
\* PatientName and PatientID of every image differ from its original
\* PatientName and PatientID.
PatientIdentityRemoved ==
    \A i \in Calls :
        /\ anon_log[i].out["PatientName"] # anon_log[i].in["PatientName"]
        /\ anon_log[i].out["PatientID"] # anon_log[i].in["PatientID"]

\* ---------------------------------------------------------------- C17
\* C17: whatever the profile, an anonymised dataset holds no private element
\* unless KeepPrivateTags is true, no overlay element, BurnedInAnnotation
\* equal to "NO", and none of the six sensitive attributes.
AlwaysAppliedRules ==
    \A i \in Calls :
        LET out == anon_log[i].out
        IN /\ ~Switch(profile_config, "KeepPrivateTags", FALSE) =>
                (DOMAIN out) \cap PrivateTags = {}
           /\ (DOMAIN out) \cap OverlayTags = {}
           /\ GetAttr(out, "BurnedInAnnotation") = "NO"
           /\ (DOMAIN out) \cap tags_to_remove = {}

\* ---------------------------------------------------------------- C18
UIDTags ==
    {"StudyInstanceUID", "SeriesInstanceUID", "SOPInstanceUID", "FrameOfReferenceUID"}

\* C18: with no profile configured, each of StudyInstanceUID,
\* SeriesInstanceUID, SOPInstanceUID and FrameOfReferenceUID present in the
\* dataset is replaced: none keeps its original value.
DefaultReplacesUIDs ==
    profile_config = NoProfile =>
        \A i \in Calls, tag \in UIDTags :
            tag \in DOMAIN anon_log[i].in =>
                anon_log[i].out[tag] # anon_log[i].in[tag]

\* ---------------------------------------------------------------- C19
\* C19: when a dataset's StudyInstanceUID and SeriesInstanceUID have the same
\* text and both are pseudonymised, the two pseudo values differ.
RolesKeyedSeparately ==
    (Pseudonymises("StudyInstanceUID") /\ Pseudonymises("SeriesInstanceUID")) =>
        \A i \in Calls :
            anon_log[i].in["StudyInstanceUID"] = anon_log[i].in["SeriesInstanceUID"]
                => anon_log[i].out["StudyInstanceUID"] # anon_log[i].out["SeriesInstanceUID"]

\* A dataset whose study and series identifiers have the same text has been
\* pseudonymised.
SameTextPseudonymised ==
    /\ Pseudonymises("StudyInstanceUID")
    /\ Pseudonymises("SeriesInstanceUID")
    /\ \E i \in Calls :
         anon_log[i].in["StudyInstanceUID"] = anon_log[i].in["SeriesInstanceUID"]

\* ---------------------------------------------------------------- C21
\* The numbering maps, the layout and the study entries are as they were.
NothingAllocatedOrPlaced ==
    UNCHANGED <<mapVars, studyDirs, seriesDirs, files, dataset, study_states>>

\* C21: when the anonymisation of an image raises, process_image adds exactly
\* 1 to the anonymisation error counter, places no file, allocates no study,
\* series or image number, and neither creates nor updates the study's entry.
AnonymizationFailureIsolated ==
    [][\A t \in Threads :
          (proc[t].pc = "anonymize" /\ proc'[t].pc = "idle") =>
              /\ counters'.err_anonymization = counters.err_anonymization + 1
              /\ NothingAllocatedOrPlaced]_vars

\* An image failed anonymisation while its study already had an entry.
AnonymizationFailedOnKnownStudy ==
    /\ counters.err_anonymization = 1
    /\ study_states # EmptyMap

\* ---------------------------------------------------------------- C22
\* C22: an image rejected by validation adds exactly 1 to the validation
\* error counter, creates no study entry, allocates no number and places no
\* file.
ValidationFailureIsolated ==
    [][(started' = started + 1 /\ proc' = proc) =>
          /\ counters'.err_validation = counters.err_validation + 1
          /\ NothingAllocatedOrPlaced]_vars

\* An image has been rejected by validation.
ValidationFailed ==
    counters.err_validation = 1

\* ---------------------------------------------------------------- C23
\* The C-STORE requests handled so far.
Stores == 1..Len(store_log)

\* C23: after the handling of a C-STORE request has returned, the temp file
\* saved for its image no longer exists, whatever the outcome of
\* process_image.
TempFilesGone ==
    \A i \in Stores :
        store_log[i].outcome \in ProcessOutcomes => i \notin temp_files

StatusCodes ==
    \A i \in Stores :
        store_log[i].status =
            (IF store_log[i].outcome \in {"no_dataset", "encode_fail"}
             THEN ProcessingFailure
             ELSE IF store_log[i].outcome = "save_temp_fail"
             THEN OutOfResources
             ELSE Success)

\* ---------------------------------------------------------------- C30
\* C30: a value returned by get_counters is not changed by a later
\* operation: its reader finds what was found when it was returned.
SnapshotIsolated ==
    snapshot = get_counters => View(snapshot) = seen

\* ---------------------------------------------------------------- C26
\* C26: the lock is held only for in-memory updates: in no reachable state
\* does its holder perform disk I/O. (At "rmdir" the tracker is inside
\* shutil.rmtree.)
NoDiskIOUnderLock ==
    ~(lock = "tracker" /\ tpc = "rmdir")

\* ---------------------------------------------------------------- C27
\* C27: the shared maps are read under the lock: the tracker does not iterate
\* the live study_states without the lock while an ingest thread is about to
\* write to it.
LiveMapsReadUnderLock ==
    (tpc = "debug" /\ \E t \in Threads : proc[t].pc = "record") => lock = "tracker"

\* ---------------------------------------------------------------- C28
\* The next step of a process_image call in flight on thread t.
IngestStep(t) ==
    \/ AnonymizeFail(t) \/ Assign(t) \/ Mkdir(t) \/ Move(t) \/ MoveFail(t) \/ Record(t)

\* C28: ingest never waits for archive or upload: while the tracker creates
\* the ZIP or waits for the upload, the lock is free and every process_image
\* call in flight can take its next step.
IngestNeverWaits ==
    tpc \in {"zip", "upload"} =>
        /\ lock = "free"
        /\ \A t \in Threads : proc[t].pc # "idle" => ENABLED IngestStep(t)

\* An image is about to be recorded under the lock while the tracker waits
\* for an upload.
IngestDuringUpload ==
    /\ tpc = "upload"
    /\ \E t \in Threads : proc[t].pc = "record"

\* ---------------------------------------------------------------- C29
\* The counters of the groups owned by ingest (reception, processing, storage).
IngestOwned == {f \in DOMAIN counters : GroupOf(f) # "errors"}

\* C29: a step of the completion tracker, on any branch, leaves the
\* ingest-owned counters unchanged.
TrackerLeavesIngestCounters ==
    [][Tracker => \A f \in IngestOwned : counters'[f] = counters[f]]_vars

\* The tracker has completed a study after ingest had counted its image.
TrackerRanAfterIngest ==
    /\ completed_count > 0
    /\ counters.storage_images > 0
    /\ counters.errors_total > 0

\* ---------------------------------------------------------------- C36
\* The for loop skips a timed-out study whose directory is missing.
DirMissingStep ==
    /\ tpc = "loop" /\ tpc' = "loop"
    /\ todo' # todo
    /\ cur' \in DOMAIN study_states
    /\ TimedOut(study_states[cur'], now, timeout)
    /\ cur' \in DOMAIN study_map
    /\ study_map[cur'] \notin studyDirs

\* create_zip returned None.
ZipFailStep == tpc = "zip" /\ tpc' = "loop"

\* C36: when a quiescent study's directory is missing or its ZIP cannot be
\* created, the tracker goes on with the loop without an upload for it, adds
\* exactly 1 to errors.total (below the model's cap), does not mark it
\* completed and leaves its entry in study_states.
ArchiveFailureSkipsStudy ==
    [][(DirMissingStep \/ ZipFailStep) =>
          /\ cur' \notin todo'
          /\ success' = "none"
          /\ counters.errors_total < CounterCap =>
                 counters'.errors_total = counters.errors_total + 1
          /\ counters'.errors_total <= counters.errors_total + 1
          /\ UNCHANGED <<study_states, completed_count>>]_vars

\* The tracker has skipped a timed-out study whose directory is missing and
\* counted the error; the study still has its entry.
MissingDirectorySkipped ==
    /\ tpc = "loop"
    /\ cur \in DOMAIN study_states
    /\ cur \in DOMAIN study_map
    /\ study_map[cur] \notin studyDirs
    /\ cur \notin todo
    /\ ~study_states[cur].completed
    /\ counters.errors_total > 0

\* ---------------------------------------------------------------- C37
\* The request just handled had the given outcome.
JustHandled(outcome) ==
    /\ Len(store_log') = Len(store_log) + 1
    /\ store_log'[Len(store_log')].outcome = outcome

\* The last image number given in series k (0: none yet).
LastImageNumber(k) == IF k \in DOMAIN image_counters THEN image_counters[k] ELSE 0

\* C37: when the move into the layout fails after the numbers were
\* allocated, the image is dropped with one processing error counted, the
\* study's entry is neither created nor refreshed, and the numbers stay
\* allocated: the image number of its series has advanced, and the next image
\* placed takes the number after the last one allocated.
MoveFailureKeepsNumbers ==
    [][/\ JustHandled("move_fail") =>
            /\ counters'.err_processing = counters.err_processing + 1
            /\ UNCHANGED <<study_states, files, dataset>>
            /\ DOMAIN study_map \subseteq DOMAIN study_map'
            /\ DOMAIN series_map \subseteq DOMAIN series_map'
            /\ \E k \in DOMAIN image_counters' :
                   image_counters'[k] = LastImageNumber(k) + 1
       /\ JustHandled("ok") =>
            \A f \in files' \ files : f[3] = LastImageNumber(<<f[1], f[2]>>) + 1]_vars

\* A gap: the first image of a series was dropped in the move and the second
\* one placed as image 2.
GapAfterMoveFailure ==
    /\ Len(store_log) = 2
    /\ store_log[1].outcome = "move_fail"
    /\ store_log[2].outcome = "ok"
    /\ files = {<<1, 1, 2>>}

\* ---------------------------------------------------------------- C38
\* C38: no image is lost: a file placed in the layout is deleted only if it
\* is contained in the ZIP archive of its study and the upload of that
\* archive returned success.
NoImageLost ==
    [][\A f \in files \ files' :
          /\ success = "ok"
          /\ f[1] \in DOMAIN zips
          /\ f \in zips[f[1]]]_vars

\* ---------------------------------------------------------------- C40
\* The distinct StudyInstanceUIDs of the valid datasets handled so far.
StudiesReceived == {store_log[i].study_uid : i \in Stores} \ {NoUID}

\* C40: counters.reception.studies never exceeds the number of distinct
\* valid StudyInstanceUIDs received.
ReceptionCountsDistinct ==
    counters.reception_studies <= Cardinality(StudiesReceived)

\* ---------------------------------------------------------------- C39
\* C39: pseudonymisation is injective per role: two images whose original
\* StudyInstanceUIDs differ never carry the same anonymised StudyInstanceUID,
\* and likewise for SeriesInstanceUID, under the default behaviour and under
\* every profile that pseudonymises the tag.
PseudonymsInjective ==
    \A tag \in {"StudyInstanceUID", "SeriesInstanceUID"} :
        Pseudonymises(tag) =>
            \A i \in Calls, j \in Calls :
                anon_log[i].in[tag] # anon_log[j].in[tag]
                    => anon_log[i].out[tag] # anon_log[j].out[tag]

\* ---------------------------------------------------------------- C33
\* The lifecycle state of study u. A study is Quiescent from the scan that
\* found it timed out to the end of the handling of its upload; an entry that
\* stays behind marked completed is in none of the named states.
Life(u) ==
    IF u \in DOMAIN study_states
    THEN IF cur = u /\ tpc \in {"zip", "upload", "handle", "rmdir"}
         THEN "Quiescent"
         ELSE IF study_states[u].completed THEN "Marked" ELSE "Active"
    ELSE IF WasPurged(u) THEN "CompletedPurged"
    ELSE IF u \in DOMAIN study_map /\ study_map[u] \in DOMAIN zips THEN "CompletedKeep"
    ELSE "Absent"

LifeTransitions ==
    {<<"Absent", "Active">>, <<"Active", "Active">>, <<"Active", "Quiescent">>,
     <<"Quiescent", "CompletedKeep">>, <<"Quiescent", "CompletedPurged">>,
     <<"Quiescent", "Active">>}

\* C33: a study's lifecycle follows only the transitions Absent -> Active,
\* Active -> Active, Active -> Quiescent, Quiescent -> CompletedKeep,
\* Quiescent -> CompletedPurged and Quiescent -> Active; CompletedKeep and
\* CompletedPurged are left by no step.
LifecycleFollowsTransitions ==
    [][\A u \in StudyUIDs :
          Life(u)' # Life(u) => <<Life(u), Life(u)'>> \in LifeTransitions]_vars

\* ---------------------------------------------------------------- C31
\* The last start() or stop() call made, and the steps that take a request
\* through process_image or begin a tick of the completion loop.
LastCall == svc_log[Len(svc_log)]
StopCalled == svc_log # <<>> /\ LastCall.call = "stop"
StopFoundTask == StopCalled /\ LastCall.task
ImageStep == Len(store_log') = Len(store_log) + 1
TickStarts == tpc = "sleep" /\ tpc' # "sleep"
ManagerUnchanged ==
    UNCHANGED <<study_states, mapVars, counters, studyDirs, seriesDirs, files, dataset>>

StartStep == Len(svc_log') > Len(svc_log) /\ svc_log'[Len(svc_log')].call = "start"

UploaderThreeValued ==
    \A i \in DOMAIN upload_log :
        LET e == upload_log[i]
        IN /\ e.result = "disabled" <=> ~base_url
           /\ base_url => /\ e.result = "ok" <=> e.response \in 200..299
                          /\ e.result = "fail" <=> e.response \notin 200..299
           /\ e.posts <= 1

\* ---------------------------------------------------------------- C34
\* C34: should_filter drops a dataset exactly when it has a Modality and that
\* Modality is in exclude_modalities; so an empty list drops nothing and a
\* dataset without Modality is accepted.
FilterDropsExcludedOnly ==
    \A i \in DOMAIN filter_log :
        LET e == filter_log[i]
        IN /\ e.dropped <=> ("Modality" \in DOMAIN e.ds /\ e.ds["Modality"] \in e.exclude)
           /\ e.exclude = {} => ~e.dropped
           /\ "Modality" \notin DOMAIN e.ds => ~e.dropped

\* One dataset was dropped for its Modality and one without Modality was
\* accepted by a filter that excludes something.
DroppedAndAcceptedOnError ==
    /\ \E i \in DOMAIN filter_log : filter_log[i].dropped
    /\ \E i \in DOMAIN filter_log :
         /\ "Modality" \notin DOMAIN filter_log[i].ds
         /\ filter_log[i].exclude # {}
         /\ ~filter_log[i].dropped

====
